---- MODULE Spec2Model ----
(***************************************************************************)
(* Model of the ShazamGo fingerprint store and matcher                      *)
(* (package matcher: FingerprintDB with its two files data/songs.json and   *)
(* data/hashes.db).                                                         *)
(*                                                                          *)
(* Values                                                                   *)
(*   - a song ID is a Go int; the model draws IDs from -1..MaxMatchID, all  *)
(*     which fit an int32, so int32(x) keeps the value;                     *)
(*   - a float64 is its two little-endian 32-bit words <<lo, hi>>;          *)
(*     the model's timestamps are the multiples of 0.25 s;                  *)
(*   - data/hashes.db is the sequence of its 32-bit words;                  *)
(*   - data/songs.json is absent, a JSON object (string key -> name) or a   *)
(*     file that does not parse.                                            *)
(***************************************************************************)
EXTENDS Integers, Sequences, FiniteSets, TLC

\* ------------------------------------------------------------------ bounds
MaxID == 1
MaxMatchID == 2
MaxHash == 2
MaxQuarter == 2
MaxRegs == 2
MaxBoots == 2
NumWriters == 2
NumCPU == 2
MaxPeaks == 3

SongIDs == (-1)..MaxID
MatchIDs == 0..MaxMatchID
Names == {"a", "b"}
Hashes == 1..MaxHash
Quarters == 0..MaxQuarter

\* ------------------------------------------------------- numeric encodings
RECURSIVE Log2(_)
Log2(n) == IF n <= 1 THEN 0 ELSE 1 + Log2(n \div 2)

\* high word of the IEEE-754 double q * 0.25 (the low word is 0)
HiWord(q) ==
    IF q = 0 THEN 0
    ELSE LET e == Log2(q)
         IN  (1021 + e) * (2^20) + (q - 2^e) * (2^(20 - e))

\* binary.Write(file, LittleEndian, timestamp): the float64 of q quarters
F64(q) == <<0, HiWord(q)>>

TimeVals == {F64(q) : q \in Quarters}

\* a double whose exponent field is 0: zero or subnormal, below 2^-1022
IsTiny(ts) == ts[2] < 2^20

\* the number of quarter seconds of a double written by F64
QuarterOf(ts) == CHOOSE q \in 0..(MaxQuarter + 4) : F64(q) = ts

\* int32(positiveID) and int(songID): every model ID fits 32 bits
Int32(x) == x

normalizeSongID(songID) ==
    IF songID < 0 THEN -songID
    ELSE IF songID = 0 THEN 1
    ELSE songID

\* fmt.Sprintf("%d", k)
Sprintf(k) == ToString(k)

KeyInts == (-MaxID - 2)..(MaxID + 2)

\* fmt.Sscanf(k, "%d", &id) with id preset to 0
Sscanf(k) ==
    IF \E i \in KeyInts : ToString(i) = k
    THEN CHOOSE i \in KeyInts : ToString(i) = k
    ELSE 0

\* ---------------------------------------------------------------- helpers
EmptyMap == [x \in {} |-> 0]

\* the fingerprint maps a caller can pass: hash -> anchor time
Fingerprints == UNION {[D -> TimeVals] : D \in SUBSET Hashes}

\* the fingerprint maps of the store runs: one anchor time
StoreFingerprints == UNION {[D -> {F64(MaxQuarter)}] : D \in SUBSET Hashes}

\* every order in which a range over the map s can visit its keys
RECURSIVE Orders(_)
Orders(S) ==
    IF S = {} THEN {<<>>}
    ELSE UNION {{<<x>> \o o : o \in Orders(S \ {x})} : x \in S}

Lookup(d, h) == IF h \in DOMAIN d THEN d[h] ELSE <<>>

Append1(d, h, m) == [x \in DOMAIN d \cup {h} |-> IF x = h THEN Append(Lookup(d, h), m) ELSE d[x]]

Put(f, k, v) == [x \in DOMAIN f \cup {k} |-> IF x = k THEN v ELSE f[x]]

\* ------------------------------------------------------------------ state
VARIABLES
    up,         \* TRUE while a process holds a FingerprintDB made by NewDB
    db,         \* f.db: hash -> sequence of Match{SongID, Timestamp}
    songs,      \* f.songs: song ID -> song name
                \* (while no process is up: the memory the last one ended with)
    songsFile,  \* data/songs.json
    log,        \* data/hashes.db as a sequence of 32-bit words
    ret,        \* outcome of the last call: "none", "ok", "err", "crash"
    loadErr,    \* TRUE iff LoadFromFiles of the running process returned an error
    res,        \* the last Match call: its query and its MatchResult
    last,       \* history: the last RegisterSong call that returned nil
    nreg,       \* number of RegisterSong calls made
    boots,      \* number of NewDB calls made
    pc,         \* goroutine -> where it is in its RegisterSong or Match call
    arg,        \* goroutine -> the arguments of its call
    todo,       \* goroutine -> the map keys its current range loop has yet to visit
    mu,         \* f.mu: the goroutine holding the write lock (0: none), the readers
    pass,       \* the Match goroutine's offsetMatches, and the entries it has read
    owner,      \* history: who wrote each index entry and log record, the Lock() order
    gpc,        \* where the goroutine that called GenerateHashes is
    peaks,      \* GenerateHashes: the peak list passed (peaks[i] is the code's peaks[i-1])
    sampleRate, \* GenerateHashes: the sample rate passed
    sent,       \* number of anchor indexes sent to jobsChan
    jobsChan,   \* the anchor indexes in the channel
    resultsChan,\* the workerResults in the channel
    wk,         \* worker -> its place in the worker function, its anchorIndex and j
    wg,         \* the WaitGroup counter
    closed,     \* TRUE once resultsChan is closed
    finalHashes,\* the map GenerateHashes builds
    emitted,    \* history: every result sent, with its anchor and target index
    fe,         \* the last run of a front-end: its input and how it ended
    gs,         \* the GenerateSpectogram call made: its sample count and its frames
    ep,         \* the ExtractPeaks call made: its spectrogram and its peaks
    sid         \* the generateSongID calls made: the path and the IDs of both programs

lockVars == <<pc, arg, todo, mu, pass, owner>>

hashVars == <<gpc, peaks, sampleRate, sent, jobsChan, resultsChan, wk, wg, closed,
              finalHashes, emitted>>

dspVars == <<gs, ep, sid>>

vars == <<up, db, songs, songsFile, log, ret, loadErr, res, last, nreg, boots, lockVars,
          hashVars, fe, dspVars>>

Absent == [kind |-> "absent", tbl |-> EmptyMap]
Corrupt == [kind |-> "corrupt", tbl |-> EmptyMap]
JSONFile(t) == [kind |-> "ok", tbl |-> t]

NoRes == [called |-> FALSE, query |-> EmptyMap,
          result |-> [SongID |-> 0, Confidence |-> <<0, 1>>, SongName |-> "",
                      MatchCount |-> 0, TotalHashes |-> 0]]

\* ---------------------------------------------------------- the song table
\* the int-keyed maps a range over the string-keyed JSON object can build
\* (a later key overwrites an earlier); loadSongsFromFile normalizes the IDs
KeyToID(k, normalize) == IF normalize THEN normalizeSongID(Sscanf(k)) ELSE Sscanf(k)

IntKeyed(tbl, normalize) ==
    LET ints == {KeyToID(k, normalize) : k \in DOMAIN tbl}
    IN  {f \in [ints -> {tbl[k] : k \in DOMAIN tbl}] :
            \A i \in ints : \E k \in DOMAIN tbl : KeyToID(k, normalize) = i /\ f[i] = tbl[k]}

StringKeyed(f) ==
    [s \in {Sprintf(i) : i \in DOMAIN f} |-> f[CHOOSE i \in DOMAIN f : Sprintf(i) = s]]

\* saveSongMetadata: every (file after the call, error returned); fault is
\* TRUE iff a file system call of it failed.  The error of os.ReadFile and
\* that of json.Unmarshal are ignored: the table written then holds the new
\* song alone.
saveSongMetadata(file, songID, songName) ==
    LET songsStr == IF file.kind = "ok" THEN file.tbl ELSE EmptyMap
        written(tbl) == {JSONFile(StringKeyed(Put(f, normalizeSongID(songID), songName))) :
                            f \in IntKeyed(tbl, FALSE)}
    IN  {[file |-> w, err |-> FALSE, fault |-> FALSE] : w \in written(songsStr)}
        \cup {[file |-> w, err |-> FALSE, fault |-> TRUE] : w \in written(EmptyMap)}
        \cup {[file |-> file, err |-> TRUE, fault |-> TRUE],     \* MkdirAll or open fails
              [file |-> Corrupt, err |-> TRUE, fault |-> TRUE]}  \* os.WriteFile fails after truncating

\* loadSongsFromFile: every (f.songs after the call, error returned)
loadSongsFromFile(file) ==
    CASE file.kind = "absent"  -> {[songs |-> EmptyMap, err |-> FALSE]}
      [] file.kind = "corrupt" -> {[songs |-> EmptyMap, err |-> TRUE]}
      [] OTHER -> {[songs |-> f, err |-> FALSE] :
                      f \in IntKeyed(file.tbl, TRUE)}

\* ------------------------------------------------------------ the hash log
Record(hash, songID, timestamp) ==
    <<hash, Int32(normalizeSongID(songID)), timestamp[1], timestamp[2]>>

RECURSIVE Records(_, _, _)
Records(order, songID, hashes) ==
    IF order = <<>> THEN <<>>
    ELSE Record(Head(order), songID, hashes[Head(order)]) \o Records(Tail(order), songID, hashes)

\* appendHashesToFile for one iteration order of the map: every (file after
\* the call, error returned).  A failing binary.Write leaves the words of the
\* writes before it; hash and song ID are one word each, the timestamp two.
appendHashesToFile(file, songID, hashes, order) ==
    LET full == Records(order, songID, hashes)
    IN  {[log |-> file \o SubSeq(full, 1, w), err |-> w < Len(full)] :
            w \in {x \in 0..Len(full) : x % 4 # 3}}
        \cup {[log |-> file, err |-> TRUE]}       \* MkdirAll or OpenFile fails

\* a loader that drops the records of songs that songs.json does not name
RECURSIVE loadHashesDroppingUnknown(_, _)
loadHashesDroppingUnknown(d, words) ==
    IF Len(words) = 0 THEN [db |-> d, err |-> FALSE]
    ELSE IF Len(words) < 4 THEN [db |-> d, err |-> TRUE]
    ELSE loadHashesDroppingUnknown(
            IF \E k \in DOMAIN songsFile.tbl :
                  normalizeSongID(Sscanf(k)) = normalizeSongID(Int32(words[2]))
            THEN Append1(d, words[1], [SongID |-> normalizeSongID(Int32(words[2])),
                                       Timestamp |-> <<words[3], words[4]>>])
            ELSE d,
            SubSeq(words, 5, Len(words)))

\* loadHashesFromFile: read 16-byte records until EOF; a short read is an error
RECURSIVE loadHashesFromFile(_, _)
loadHashesFromFile(d, words) ==
    IF Len(words) = 0 THEN [db |-> d, err |-> FALSE]
    ELSE IF Len(words) < 4 THEN [db |-> d, err |-> TRUE]
    ELSE loadHashesFromFile(
            Append1(d, words[1], [SongID |-> normalizeSongID(Int32(words[2])),
                                  Timestamp |-> <<words[3], words[4]>>]),
            SubSeq(words, 5, Len(words)))

\* LoadFromFiles: every (f.songs, f.db, error) it can leave
LoadFromFiles(file, words) ==
    {IF s.err THEN [songs |-> s.songs, db |-> EmptyMap, err |-> TRUE]
     ELSE LET h == loadHashesFromFile(EmptyMap, words)
          IN  [songs |-> s.songs, db |-> h.db, err |-> h.err] :
        s \in loadSongsFromFile(file)}

\* GetSongName
GetSongName(sg, songID) ==
    IF normalizeSongID(songID) \in DOMAIN sg THEN sg[normalizeSongID(songID)] ELSE ""

\* ------------------------------------------------------------------ Match
\* int(x) of a float64 quotient: truncation toward zero
TruncDiv(a, b) == IF a >= 0 THEN a \div b ELSE -((-a) \div b)

\* queryTime - dbMatch.Timestamp in quarter seconds.  A zero or subnormal
\* stored time (read from a misaligned log) changes no bucket: it is lost in
\* the rounding of the subtraction, or truncated by int().
Quarter(ts) == IF IsTiny(ts) THEN 0 ELSE QuarterOf(ts)

\* a bucket taken from the query time alone
OffsetBucketOfQueryTime(queryTime, dbTime) == TruncDiv(Quarter(queryTime), 2)

\* int(offset / offsetTolerance) with offsetTolerance = 0.5
OffsetBucket(queryTime, dbTime) == TruncDiv(Quarter(queryTime) - Quarter(dbTime), 2)

\* the (query hash, index entry) pairs the two nested loops visit
KeyOf(d, queryHashes, p) ==
    [songID |-> d[p[1]][p[2]].SongID,
     offsetBucket |-> OffsetBucket(queryHashes[p[1]], d[p[1]][p[2]].Timestamp)]

\* offsetMatches after the voting loops
OffsetMatches(d, queryHashes) ==
    LET pairs == UNION {{<<h, i>> : i \in 1..Len(Lookup(d, h))} : h \in DOMAIN queryHashes}
        keys  == {KeyOf(d, queryHashes, p) : p \in pairs}
    IN  [k \in keys |-> Cardinality({p \in pairs : KeyOf(d, queryHashes, p) = k})]

\* a selection that keeps the first key it visits
BestKeyFirstVisited(order, votes, best) ==
    IF order = <<>> THEN best
    ELSE [key |-> Head(order), count |-> votes[Head(order)]]

\* the selection loop over offsetMatches in the iteration order `order`
RECURSIVE BestKey(_, _, _)
BestKey(order, votes, best) ==
    IF order = <<>> THEN best
    ELSE LET key == Head(order)
         IN  IF votes[key] > best.count
             THEN BestKey(Tail(order), votes, [key |-> key, count |-> votes[key]])
             ELSE BestKey(Tail(order), votes, best)

NoMatch(total) ==
    [SongID |-> -1, Confidence |-> <<0, 1>>, SongName |-> "",
     MatchCount |-> 0, TotalHashes |-> total]

\* a Match that returns the stored ID of the best key as it is
MatchWithStoredID(votes, sg, queryHashes, order) ==
    LET best  == BestKey(order, votes,
                         [key |-> [songID |-> -1, offsetBucket |-> 0], count |-> 0])
    IN  [SongID |-> best.key.songID,
         Confidence |-> <<best.count, Cardinality(DOMAIN queryHashes)>>,
         SongName |-> "Unknown",
         MatchCount |-> best.count,
         TotalHashes |-> Cardinality(DOMAIN queryHashes)]

\* a Match that reports the votes of all keys together
MatchWithAllVotes(votes, sg, queryHashes, order) ==
    LET best  == BestKey(order, votes,
                         [key |-> [songID |-> -1, offsetBucket |-> 0], count |-> 0])
        positiveID == normalizeSongID(best.key.songID)
        songName == IF positiveID \in DOMAIN sg THEN sg[positiveID] ELSE ""
        all == Cardinality(UNION {{<<k, i>> : i \in 1..votes[k]} : k \in DOMAIN votes})
    IN  [SongID |-> positiveID,
         Confidence |-> <<all, Cardinality(DOMAIN queryHashes)>>,
         SongName |-> IF songName = "" THEN "Unknown" ELSE songName,
         MatchCount |-> all,
         TotalHashes |-> Cardinality(DOMAIN queryHashes)]

\* the rest of Match for one iteration order of offsetMatches; Confidence is the ratio
\* <<bestCount, len(queryHashes)>>
MatchWith(votes, sg, queryHashes, order) ==
    LET best  == BestKey(order, votes,
                         [key |-> [songID |-> -1, offsetBucket |-> 0], count |-> 0])
        positiveID == normalizeSongID(best.key.songID)
        songName == IF positiveID \in DOMAIN sg THEN sg[positiveID] ELSE ""
    IN  [SongID |-> positiveID,
         Confidence |-> <<best.count, Cardinality(DOMAIN queryHashes)>>,
         SongName |-> IF songName = "" THEN "Unknown" ELSE songName,
         MatchCount |-> best.count,
         TotalHashes |-> Cardinality(DOMAIN queryHashes)]

\* every result Match can return for the query
Match(d, sg, queryHashes) ==
    IF DOMAIN queryHashes = {} THEN {NoMatch(0)}
    ELSE IF DOMAIN d = {} THEN {NoMatch(Cardinality(DOMAIN queryHashes))}
    ELSE LET votes == OffsetMatches(d, queryHashes)
         IN  IF DOMAIN votes = {}
             THEN {NoMatch(Cardinality(DOMAIN queryHashes))}
             ELSE {MatchWith(votes, sg, queryHashes, order) : order \in Orders(DOMAIN votes)}

\* ------------------------------------------------------------- the hasher
fftWindowSize == 4096
fftOverLap == 2048
targetZoneHeight == 90
targetZoneWidth == 45

\* the bitwise OR of two naturals
RECURSIVE BitOr(_, _)
BitOr(a, b) ==
    IF a = 0 THEN b
    ELSE IF b = 0 THEN a
    ELSE (IF a % 2 = 1 \/ b % 2 = 1 THEN 1 ELSE 0) + 2 * BitOr(a \div 2, b \div 2)

\* uint32(x) of an int x >= 0, as its two 16-bit halves <<bits 31..16, bits 15..0>>
Uint32(x) == <<(x \div 65536) % 65536, x % 65536>>

\* w << n on a uint32: the bits shifted out at the top are lost
Shl(w, n) ==
    IF n >= 16
    THEN <<(w[2] % (2 ^ (32 - n))) * (2 ^ (n - 16)), 0>>
    ELSE <<(w[1] % (2 ^ (16 - n))) * (2 ^ n) + (w[2] \div (2 ^ (16 - n))),
           (w[2] % (2 ^ (16 - n))) * (2 ^ n)>>

Or32(a, b) == <<BitOr(a[1], b[1]), BitOr(a[2], b[2])>>

\* hash := (uint32(anchor.Freq) << 22) | (uint32(target.Freq) << 12) | (uint32(timeDelta))
Hash(anchor, target) ==
    Or32(Or32(Shl(Uint32(anchor.Freq), 22), Shl(Uint32(target.Freq), 12)),
         Uint32(target.Time - anchor.Time))

\* anchorTime := float64(anchor.Time*(fftWindowSize-fftOverLap)) / float64(sampleRate),
\* as the ratio <<dividend, divisor>>; a divisor 0 makes it NaN or +Inf
AnchorTime(anchor, rate) == <<anchor.Time * (fftWindowSize - fftOverLap), rate>>

Abs(x) == IF x < 0 THEN -x ELSE x

\* the workers of GenerateHashes: numWorkers := runtime.NumCPU()
Workers == 1..NumCPU

NoWork == [pc |-> "none", anchorIndex |-> 0, j |-> 0]

\* no GenerateHashes call is running
HashIdle ==
    /\ gpc = "idle"
    /\ peaks = <<>>
    /\ sampleRate = 0
    /\ sent = 0
    /\ jobsChan = <<>>
    /\ resultsChan = <<>>
    /\ wk = [w \in Workers |-> NoWork]
    /\ wg = 0
    /\ closed = FALSE
    /\ finalHashes = EmptyMap
    /\ emitted = {}

\* GenerateSpectogram and ExtractPeaks have not been called
NoSpectogram == [called |-> FALSE, size |-> 0, frames |-> <<>>]

NoPeaks == [called |-> FALSE, spectrogram |-> <<>>, peaks |-> <<>>]

NoSongID == [called |-> FALSE, path |-> <<>>, server |-> 0, cli |-> 0]

\* no front-end has run
NoRun == [front |-> "none", op |-> "none", audio |-> [samples |-> "none", sampleRate |-> 0],
          hashes |-> EmptyMap, cond |-> "none"]

\* ---------------------------------------------------------------- actions
\* the goroutines of the server: Writers call RegisterSong, Matcher calls Match
Writers == 1..NumWriters
Matcher == NumWriters + 1
Goroutines == Writers \cup {Matcher}

NoArg == [songID |-> 0, songName |-> "", hashes |-> EmptyMap]

LockInit ==
    /\ pc = [t \in Goroutines |-> "idle"]
    /\ arg = [t \in Goroutines |-> NoArg]
    /\ todo = [t \in Goroutines |-> {}]
    /\ mu = [writer |-> 0, readers |-> {}]
    /\ pass = [votes |-> EmptyMap, seen |-> {}]
    /\ owner = [db |-> EmptyMap, log |-> <<>>, order |-> <<>>, mem |-> <<>>]

NoLast == [set |-> FALSE, id |-> 0, name |-> "", hashes |-> EmptyMap, boot |-> 0, n |-> 0]

Init ==
    /\ up = FALSE
    /\ db = EmptyMap
    /\ songs = EmptyMap
    /\ songsFile = Absent
    /\ log = <<>>
    /\ ret = "none"
    /\ loadErr = FALSE
    /\ res = NoRes
    /\ last = NoLast
    /\ nreg = 0
    /\ boots = 0
    /\ LockInit
    /\ HashIdle
    /\ fe = NoRun
    /\ gs = NoSpectogram
    /\ ep = NoPeaks
    /\ sid = NoSongID

\* NewDB: fresh maps, LoadFromFiles, a warning on error, the DB is returned
NewDB ==
    /\ ~up
    /\ boots < MaxBoots
    /\ \E l \in LoadFromFiles(songsFile, log) :
          /\ songs' = l.songs
          /\ db' = l.db
          /\ loadErr' = l.err
    /\ up' = TRUE
    /\ ret' = "none"
    /\ res' = NoRes
    /\ boots' = boots + 1
    /\ UNCHANGED <<songsFile, log, last, nreg, lockVars, hashVars, dspVars, fe>>

\* the process ends (the CLI after each command, the server when stopped)
Exit ==
    /\ up
    /\ up' = FALSE
    /\ ret' = "none"
    /\ res' = NoRes
    /\ UNCHANGED <<db, songs, loadErr, songsFile, log, last, nreg, boots, lockVars, hashVars, dspVars, fe>>

\* a loop that skips an entry the list already holds
StoreHashesOnce(d, songID, hashes) ==
    [x \in DOMAIN d \cup DOMAIN hashes |->
        IF x \in DOMAIN hashes
        THEN IF \E i \in 1..Len(Lookup(d, x)) :
                   d[x][i] = [SongID |-> songID, Timestamp |-> hashes[x]]
             THEN d[x]
             ELSE Append(Lookup(d, x), [SongID |-> songID, Timestamp |-> hashes[x]])
        ELSE d[x]]

\* f.db after the loop that stores the hashes in memory
StoreHashes(d, songID, hashes) ==
    [x \in DOMAIN d \cup DOMAIN hashes |->
        IF x \in DOMAIN hashes
        THEN Append(Lookup(d, x), [SongID |-> songID, Timestamp |-> hashes[x]])
        ELSE d[x]]

\* RegisterSong(songID, songName, hashes): every way the call can end.
\* s is the outcome of saveSongMetadata, a that of appendHashesToFile (not
\* called when s is an error); crash = the process dies at that point.
\* With faults = FALSE the file system never fails and the process lives.
RegisterSong(songID, songName, hashes, faults) ==
    /\ up
    /\ nreg < MaxRegs
    /\ \E s \in saveSongMetadata(songsFile, songID, songName),
          order \in Orders(DOMAIN hashes),
          crash \in {FALSE, faults} :
          \E a \in IF s.err THEN {[log |-> log, err |-> TRUE]}
                   ELSE appendHashesToFile(log, songID, hashes, order) :
             /\ faults \/ ~(s.fault \/ a.err)
             /\ songsFile' = s.file
             /\ log' = a.log
             /\ songs' = Put(songs, songID, songName)
             /\ db' = StoreHashes(db, songID, hashes)
             /\ IF crash
                THEN /\ up' = FALSE
                     /\ ret' = "crash"
                     /\ UNCHANGED last
                ELSE /\ up' = TRUE
                     /\ ret' = IF a.err THEN "err" ELSE "ok"
                     /\ last' = IF a.err THEN last
                                ELSE [set |-> TRUE, id |-> songID, name |-> songName,
                                      hashes |-> hashes, boot |-> boots, n |-> nreg + 1]
    /\ res' = NoRes
    /\ nreg' = nreg + 1
    /\ UNCHANGED <<loadErr, boots, lockVars, hashVars, dspVars>>

\* a register call of the store with any input and any fault
Register ==
    /\ ~res.called
    /\ \E songID \in SongIDs, songName \in Names, hashes \in StoreFingerprints :
          RegisterSong(songID, songName, hashes, TRUE)
    /\ UNCHANGED fe

\* db.Match(queryHashes) for a query of the set queries, by a caller that has
\* reported the result of its previous call
MatchCall(queries) ==
    /\ up
    /\ ~res.called
    /\ \E queryHashes \in queries :
          \E r \in Match(db, songs, queryHashes) :
             res' = [called |-> TRUE, query |-> queryHashes, result |-> r]
    /\ UNCHANGED <<up, db, songs, songsFile, log, ret, loadErr, last, nreg, boots, lockVars, hashVars, dspVars>>

Query == MatchCall(StoreFingerprints) /\ UNCHANGED fe

\* the caller prints the MatchResult (or writes the response) and is done with it
Report ==
    /\ res.called
    /\ res' = NoRes
    /\ UNCHANGED <<up, db, songs, songsFile, log, ret, loadErr, last, nreg, boots, lockVars, hashVars, dspVars, fe>>

Next == NewDB \/ Exit \/ Register \/ Query \/ Report

Spec == Init /\ [][Next]_vars

\* ------------------------------------------------------------ store claims
HasEntry(d, h, songID) == \E i \in 1..Len(Lookup(d, h)) : d[h][i].SongID = songID

\* the process that is up has made no register call: it is as NewDB left it
JustStarted == up /\ ret = "none"

\* C1: after RegisterSong(id, name, H) with id > 0 returned nil and the
\* process was restarted (no other register call in between), every hash of H
\* has an entry of id in the index and the name of id is name.
C1_RegisterSurvivesRestart ==
    (JustStarted /\ last.set /\ last.id > 0 /\ last.n = nreg /\ boots > last.boot) =>
        /\ \A h \in DOMAIN last.hashes : HasEntry(db, h, last.id)
        /\ GetSongName(songs, last.id) = last.name

\* the entries of a sequence as a multiset: entry -> number of occurrences
Count(seq, m) == Cardinality({i \in 1..Len(seq) : seq[i] = m})

SameIndex(d1, d2) ==
    /\ DOMAIN d1 = DOMAIN d2
    /\ \A h \in DOMAIN d1 :
          \A m \in {d1[h][i] : i \in 1..Len(d1[h])} \cup {d2[h][i] : i \in 1..Len(d2[h])} :
             Count(d1[h], m) = Count(d2[h], m)

\* C2: when a process that has ended (not by a crash) is restarted, the index
\* NewDB replays from the log equals, as a multiset under each hash, the index
\* the process had in memory when it ended.
C2_ReplayEqualsMemory ==
    [][(~up /\ up' /\ ret # "crash") => SameIndex(db, db')]_vars

\* C3: a RegisterSong call that returns an error leaves the log, songs.json,
\* the in-memory index and the in-memory song table as they were.
C3_RegisterFailsAtomically ==
    [][(nreg' = nreg + 1 /\ ret' = "err") =>
          (log' = log /\ songsFile' = songsFile /\ db' = db /\ songs' = songs)]_vars

\* the store is corrupt: a partial trailing record or a songs.json that does not parse
StoreCorrupt == Len(log) % 4 # 0 \/ songsFile.kind = "corrupt"

\* C4: no process ever runs on a corrupt store: NewDB hands out a database
\* only when the log is a whole number of records and songs.json parses.
C4_CorruptStoreIsFatal ==
    [][(~up /\ up') => ~StoreCorrupt]_vars

\* the i-th 16-byte record of the log file (i from 0)
LogRecord(i) ==
    [hash |-> log[4 * i + 1],
     songID |-> normalizeSongID(Int32(log[4 * i + 2])),
     timestamp |-> <<log[4 * i + 3], log[4 * i + 4]>>]

InSongsFile(songID) ==
    \E k \in DOMAIN songsFile.tbl : normalizeSongID(Sscanf(k)) = songID

Orphans == {i \in 0..(Len(log) \div 4 - 1) : ~InSongsFile(LogRecord(i).songID)}

Loaded(r) ==
    \E j \in 1..Len(Lookup(db, r.hash)) :
        db[r.hash][j] = [SongID |-> r.songID, Timestamp |-> r.timestamp]

C6_SongsFileAtomic ==
    [][(nreg' = nreg + 1 /\ ret' = "crash") =>
          (songsFile' = songsFile \/ songsFile'.kind = "ok")]_vars

\* C12 (I1): in every state of a running process, every entry of the
\* in-memory index references a song ID that is a key of the in-memory song
\* table.
C12_EntriesReferenceSongTable ==
    up => \A h \in DOMAIN db :
             \A i \in 1..Len(db[h]) : db[h][i].SongID \in DOMAIN songs

\* C14: every song ID of a log record is > 0 as an int32, and every song ID
\* held by a running process, in the index and in the song table, is > 0.
C14_StoredIDsPositive ==
    /\ \A i \in 0..(Len(log) \div 4 - 1) : Int32(log[4 * i + 2]) > 0
    /\ up => /\ \A h \in DOMAIN db : \A i \in 1..Len(db[h]) : db[h][i].SongID > 0
             /\ \A songID \in DOMAIN songs : songID > 0

\* -------------------------------------------- the song table across registers
\* The store as the front-ends use it: every register passes the positive ID
\* that generateSongID made; the file system can fail and the process can die
\* and be restarted.
AddRegister ==
    /\ ~res.called
    /\ \E songID \in 1..MaxMatchID, songName \in Names, hashes \in StoreFingerprints :
          RegisterSong(songID, songName, hashes, TRUE)
    /\ UNCHANGED fe

AddNext == NewDB \/ Exit \/ AddRegister

AddSpec == Init /\ [][AddNext]_vars

\* the song IDs that a load of the songs.json `file` puts in the song table
FileIDs(file) == {normalizeSongID(Sscanf(k)) : k \in DOMAIN file.tbl}

\* C13: no register call removes a song ID from the song table: an ID that
\* is a key of the in-memory table and of songs.json before the call is a key
\* of both after it.
C13_SongTableMonotone ==
    [][(nreg' = nreg + 1) =>
          \A id \in DOMAIN songs \cap FileIDs(songsFile) :
             id \in DOMAIN songs' /\ id \in FileIDs(songsFile')]_vars

\* the words appended to the log by a step hold the whole record rec
Appended(before, after, rec) ==
    \E k \in 0..(((Len(after) - Len(before)) \div 4) - 1) :
        SubSeq(after, Len(before) + 4 * k + 1, Len(before) + 4 * k + 4) = rec

\* C24: a register call writes its records to the log before it rewrites songs.json:
\* when the process dies inside the call and songs.json has come to name the song,
\* every record of the call is in the log.
C24_LogBeforeSongTable ==
    [][(nreg' = nreg + 1 /\ ret' = "crash") =>
          \A h \in DOMAIN db' :
              (Len(db'[h]) > Len(Lookup(db, h))) =>
                  LET m == db'[h][Len(db'[h])]
                  IN  (normalizeSongID(m.SongID) \in FileIDs(songsFile') \ FileIDs(songsFile))
                          => Appended(log, log', Record(h, m.SongID, m.Timestamp))]_vars

\* songs.json maps the song ID to the name
Names1(file, songID, songName) ==
    /\ file.kind = "ok"
    /\ Sprintf(songID) \in DOMAIN file.tbl
    /\ file.tbl[Sprintf(songID)] = songName

\* C29: no update of songs.json is lost: when two register calls of one process with
\* distinct positive IDs have returned nil, one right after the other, songs.json maps
\* both IDs to their names.  (Calls on one FingerprintDB run one after the other under
\* the lock, so concurrent calls are calls in some order.)
C29_NoLostUpdate ==
    [][(/\ nreg' = nreg + 1 /\ ret' = "ok"
        /\ last.set /\ last.n = nreg /\ last.boot = boots
        /\ last.id > 0 /\ last'.id > 0 /\ last'.id # last.id) =>
          /\ Names1(songsFile', last.id, last.name)
          /\ Names1(songsFile', last'.id, last'.name)]_vars

\* ------------------------------------------------- the matcher on one process
\* One process on a fresh store and a file system that does not fail: the
\* index is what register calls made of it, and Match is called on it.
MatchInit ==
    /\ up = TRUE
    /\ db = EmptyMap
    /\ songs = EmptyMap
    /\ songsFile = Absent
    /\ log = <<>>
    /\ ret = "none"
    /\ loadErr = FALSE
    /\ res = NoRes
    /\ last = NoLast
    /\ nreg = 0
    /\ boots = 1
    /\ LockInit
    /\ HashIdle
    /\ fe = NoRun
    /\ gs = NoSpectogram
    /\ ep = NoPeaks
    /\ sid = NoSongID

MatchRegister ==
    /\ ~res.called
    /\ \E songID \in MatchIDs, songName \in Names, hashes \in Fingerprints :
          RegisterSong(songID, songName, hashes, FALSE)
    /\ UNCHANGED fe

MatchQuery == MatchCall(Fingerprints) /\ UNCHANGED fe

MatchNext == MatchRegister \/ MatchQuery \/ Report

MatchSpec == MatchInit /\ [][MatchNext]_vars

\* ---------------------------------------------------------- matcher claims
\* the votes of the query res.query on the index: one per (query hash, entry)
Pairs == UNION {{<<h, i>> : i \in 1..Len(Lookup(db, h))} : h \in DOMAIN res.query}

PairSong(p) == db[p[1]][p[2]].SongID

PairBucket(p) == OffsetBucket(res.query[p[1]], db[p[1]][p[2]].Timestamp)

VoteKeys == {<<PairSong(p), PairBucket(p)>> : p \in Pairs}

VotesFor(k) == Cardinality({p \in Pairs : PairSong(p) = k[1] /\ PairBucket(p) = k[2]})

VoteCounts == {VotesFor(k) : k \in VoteKeys}

MaxVotes == CHOOSE n \in VoteCounts : \A m \in VoteCounts : m <= n

\* the index holds, under every hash of H, the entry a register of (id, H) stores
InIndex(id, H) ==
    \A h \in DOMAIN H :
        \E i \in 1..Len(Lookup(db, h)) : db[h][i] = [SongID |-> id, Timestamp |-> H[h]]

OnlyRegistration(H) ==
    /\ DOMAIN db = DOMAIN H
    /\ \A h \in DOMAIN H : Len(db[h]) = 1

\* C8 as written: a Match of the fingerprints H of a register of id > 0 that
\* has succeeded returns id with match_count >= 0.9 * |H|, whatever else is
\* registered, and match_count = |H| when H is the only registration.
C8_ExactReplayMatches ==
    (res.called /\ last.set /\ last.id > 0 /\ DOMAIN last.hashes # {}
        /\ res.query = last.hashes) =>
        /\ res.result.SongID = last.id
        /\ 10 * res.result.MatchCount >= 9 * Cardinality(DOMAIN last.hashes)
        /\ OnlyRegistration(last.hashes)
              => res.result.MatchCount = Cardinality(DOMAIN last.hashes)

\* C8 amended: for every id > 0 and non-empty H whose entries the index holds
\* (as it does once RegisterSong(id, name, H) has succeeded), Match(H) returns
\* match_count >= |H| >= 0.9 * |H|, match_count = |H| when H is the only
\* registration, and song_id = id when every bucket of every other song has
\* fewer votes than the bucket of id at offset 0.
C8_ExactReplayAmended ==
    /\ last.set => InIndex(last.id, last.hashes)
    /\ res.called =>
          \A id \in 1..MaxMatchID :
             (DOMAIN res.query # {} /\ InIndex(id, res.query)) =>
                /\ res.result.MatchCount >= Cardinality(DOMAIN res.query)
                /\ 10 * res.result.MatchCount >= 9 * Cardinality(DOMAIN res.query)
                /\ OnlyRegistration(res.query)
                      => res.result.MatchCount = Cardinality(DOMAIN res.query)
                /\ (\A k \in VoteKeys : k[1] # id => VotesFor(k) < VotesFor(<<id, 0>>))
                      => res.result.SongID = id

C8_Witness ==
    /\ res.called /\ last.set /\ last.id > 0 /\ Cardinality(DOMAIN last.hashes) = 2
    /\ res.query = last.hashes
    /\ \E k \in VoteKeys : k[1] # last.id
    /\ \A k \in VoteKeys : k[1] # last.id => VotesFor(k) < VotesFor(<<last.id, 0>>)
    /\ res.result.SongID = last.id

NoVotes == \A h \in DOMAIN res.query : Lookup(db, h) = <<>>

\* C9: Match returns song_id = -1 with confidence 0 and match_count 0 exactly
\* when no query hash has an entry in the index; otherwise song_id >= 1; and
\* total is always the number of query hashes.
C9_AbsenceIsAValue ==
    res.called =>
        /\ (res.result.SongID = -1 /\ res.result.Confidence[1] = 0
               /\ res.result.MatchCount = 0) <=> NoVotes
        /\ ~NoVotes => res.result.SongID >= 1
        /\ res.result.TotalHashes = Cardinality(DOMAIN res.query)

C9_Witness ==
    /\ res.called /\ NoVotes /\ DOMAIN res.query # {} /\ DOMAIN db # {}
    /\ res.result.SongID = -1 /\ res.result.MatchCount = 0
    /\ res.result.TotalHashes = Cardinality(DOMAIN res.query)

\* C10: when a vote is cast, match_count is the largest count over the
\* (song, bucket) pairs, the returned song_id is that of a pair with this
\* count, and when one song alone has it every iteration order returns the
\* same result.
C10_MatchReturnsMaximum ==
    (res.called /\ Pairs # {}) =>
        LET maxVotes == MaxVotes
            winners  == {k[1] : k \in {x \in VoteKeys : VotesFor(x) = maxVotes}}
        IN  /\ res.result.MatchCount = maxVotes
            /\ \E songID \in winners : res.result.SongID = normalizeSongID(songID)
            /\ Cardinality(winners) = 1
                  => \A r \in Match(db, songs, res.query) : r = res.result

C10_Witness ==
    /\ res.called
    /\ Pairs # {}
    /\ Cardinality(VoteCounts) >= 2
    /\ Cardinality({k[1] : k \in {x \in VoteKeys : VotesFor(x) = MaxVotes}}) = 1
    /\ res.result.MatchCount = MaxVotes
    /\ res.result.MatchCount >= 2

\* queryTime - dbMatch.Timestamp of a pair, in quarter seconds
PairOffset(p) == Quarter(res.query[p[1]]) - Quarter(db[p[1]][p[2]].Timestamp)

\* C11: every vote is counted in bucket floor(offset / 0.5): each bucket
\* covers 0.5 s of offsets, and a negative and a positive offset of one song
\* are never counted in the same bucket.
C11_FloorBuckets ==
    res.called =>
        /\ \A p \in Pairs : PairBucket(p) = PairOffset(p) \div 2
        /\ \A p1, p2 \in Pairs :
              (PairSong(p1) = PairSong(p2) /\ PairOffset(p1) < 0 /\ PairOffset(p2) > 0)
                 => PairBucket(p1) # PairBucket(p2)

\* the step is a successful register call with the arguments of the
\* successful register call before it
RegisteredAgain ==
    /\ last.set
    /\ last'.n = nreg + 1
    /\ last'.id = last.id /\ last'.name = last.name /\ last'.hashes = last.hashes

\* C15: a register of the same id, name and fingerprints H as the register
\* before it appends one more entry of id under each hash of H, so that a
\* list that held the first register's entry alone doubles in length; no
\* entry is dropped as a duplicate, the lists of the other hashes and the
\* name of id stay as they were.
C15_RegisterTwiceDoubles ==
    [][RegisteredAgain =>
          /\ \A h \in DOMAIN last.hashes :
                /\ db'[h] = Append(db[h], [SongID |-> last.id, Timestamp |-> last.hashes[h]])
                /\ OnlyRegistration(last.hashes) => Len(db'[h]) = 2 * Len(db[h])
          /\ \A h \in DOMAIN db' \ DOMAIN last.hashes : h \in DOMAIN db /\ db'[h] = db[h]
          /\ GetSongName(songs', last.id) = GetSongName(songs, last.id)
          /\ last.id > 0 => GetSongName(songs', last.id) = last.name
          /\ songs' = songs
          /\ songsFile' = songsFile]_vars

C15_Witness ==
    /\ last.set /\ last.n = 2 /\ last.id > 0
    /\ DOMAIN last.hashes = Hashes
    /\ \A h \in Hashes :
          db[h] = <<[SongID |-> last.id, Timestamp |-> last.hashes[h]],
                    [SongID |-> last.id, Timestamp |-> last.hashes[h]]>>
    /\ GetSongName(songs, last.id) = last.name
    /\ DOMAIN songs = {last.id}

\* no hash of the query has two entries that vote for the same song and bucket
NoRepeatedVote ==
    \A p, q \in Pairs :
        (p[1] = q[1] /\ PairSong(p) = PairSong(q) /\ PairBucket(p) = PairBucket(q)) => p = q

\* C30 as written: in every result of Match, 0 <= MatchCount <= TotalHashes, also when
\* the same fingerprints were registered more than once.
C30_MatchCountBounded ==
    res.called =>
        /\ 0 <= res.result.MatchCount
        /\ res.result.MatchCount <= res.result.TotalHashes

\* C30 amended: in every result of Match, TotalHashes is the size of the query and
\* 0 <= MatchCount <= the number of index entries under the hashes of the query;
\* MatchCount <= TotalHashes when no hash holds two entries of one song and bucket.
C30_MatchCountAmended ==
    res.called =>
        /\ res.result.TotalHashes = Cardinality(DOMAIN res.query)
        /\ 0 <= res.result.MatchCount
        /\ res.result.MatchCount <= Cardinality(Pairs)
        /\ NoRepeatedVote => res.result.MatchCount <= res.result.TotalHashes

\* a query for fingerprints that were registered twice: every hash votes twice
C30_Witness ==
    /\ res.called
    /\ nreg = 2
    /\ DOMAIN res.query = Hashes
    /\ \A h \in Hashes : Len(Lookup(db, h)) = 2 /\ db[h][1] = db[h][2]
    /\ res.result.MatchCount = 2 * res.result.TotalHashes

\* ------------------------------------------- goroutines on one FingerprintDB
\* The server: handleAdd and handleMatch run in their own goroutines and call
\* RegisterSong and Match on the one db.  Every statement that reads or
\* writes the shared maps or the files is a step; the file system does not
\* fail.
storeVars == <<up, ret, loadErr, last, nreg, boots>>

Step(t, to) == pc' = [pc EXCEPT ![t] = to]

\* a Lock() that waits for the writer only
CanLockWithReaders == mu.writer = 0

\* f.mu.Lock() can return
CanLock == mu.writer = 0 /\ mu.readers = {}

\* f.mu.RLock() can return
CanRLock == mu.writer = 0

\* handleAdd calls db.RegisterSong(songID, songName, hashes)
CallRegister(t) ==
    /\ pc[t] = "idle"
    /\ \E songID \in 1..MaxMatchID, songName \in Names, hashes \in StoreFingerprints :
          arg' = [arg EXCEPT ![t] = [songID |-> songID, songName |-> songName,
                                     hashes |-> hashes]]
    /\ Step(t, "lock")
    /\ UNCHANGED <<db, songs, songsFile, log, res, todo, mu, pass, owner, storeVars, hashVars, dspVars, fe>>

\* f.mu.Lock()
Lock(t) ==
    /\ pc[t] = "lock"
    /\ CanLock
    /\ mu' = [mu EXCEPT !.writer = t]
    /\ owner' = [owner EXCEPT !.order = Append(@, t)]
    /\ Step(t, "songs")
    /\ UNCHANGED <<db, songs, songsFile, log, res, arg, todo, pass, storeVars, hashVars, dspVars, fe>>

\* f.songs[songID] = songName, and the range over hashes begins
SetSongName(t) ==
    /\ pc[t] = "songs"
    /\ songs' = Put(songs, arg[t].songID, arg[t].songName)
    /\ todo' = [todo EXCEPT ![t] = DOMAIN arg[t].hashes]
    /\ Step(t, IF DOMAIN arg[t].hashes = {} THEN "save" ELSE "mem")
    /\ UNCHANGED <<db, songsFile, log, res, arg, mu, pass, owner, storeVars, hashVars, dspVars, fe>>

\* one iteration of the loop that stores the hashes in memory
StoreHash(t) ==
    /\ pc[t] = "mem"
    /\ \E h \in todo[t] :
          /\ db' = Append1(db, h, [SongID |-> arg[t].songID, Timestamp |-> arg[t].hashes[h]])
          /\ owner' = [owner EXCEPT !.db = Append1(@, h, t), !.mem = Append(@, <<t, h>>)]
          /\ todo' = [todo EXCEPT ![t] = @ \ {h}]
          /\ Step(t, IF todo[t] = {h} THEN "save" ELSE "mem")
    /\ UNCHANGED <<songs, songsFile, log, res, arg, mu, pass, storeVars, hashVars, dspVars, fe>>

\* f.saveSongMetadata(songID, songName), and the range of appendHashesToFile begins
SaveMetadata(t) ==
    /\ pc[t] = "save"
    /\ \E s \in saveSongMetadata(songsFile, arg[t].songID, arg[t].songName) :
          /\ ~s.fault
          /\ songsFile' = s.file
    /\ todo' = [todo EXCEPT ![t] = DOMAIN arg[t].hashes]
    /\ Step(t, IF DOMAIN arg[t].hashes = {} THEN "unlock" ELSE "append")
    /\ UNCHANGED <<db, songs, log, res, arg, mu, pass, owner, storeVars, hashVars, dspVars, fe>>

\* one iteration of the loop of appendHashesToFile: one record
AppendRecord(t) ==
    /\ pc[t] = "append"
    /\ \E h \in todo[t] :
          /\ log' = log \o Record(h, arg[t].songID, arg[t].hashes[h])
          /\ owner' = [owner EXCEPT !.log = Append(@, t)]
          /\ todo' = [todo EXCEPT ![t] = @ \ {h}]
          /\ Step(t, IF todo[t] = {h} THEN "unlock" ELSE "append")
    /\ UNCHANGED <<db, songs, songsFile, res, arg, mu, pass, storeVars, hashVars, dspVars, fe>>

\* the deferred f.mu.Unlock()
Unlock(t) ==
    /\ pc[t] = "unlock"
    /\ mu' = [mu EXCEPT !.writer = 0]
    /\ Step(t, "done")
    /\ UNCHANGED <<db, songs, songsFile, log, res, arg, todo, pass, owner, storeVars, hashVars, dspVars, fe>>

\* handleMatch calls db.Match(queryHashes)
CallMatch ==
    /\ pc[Matcher] = "idle"
    /\ \E queryHashes \in StoreFingerprints :
          arg' = [arg EXCEPT ![Matcher] = [songID |-> 0, songName |-> "",
                                           hashes |-> queryHashes]]
    /\ Step(Matcher, "rlock")
    /\ UNCHANGED <<db, songs, songsFile, log, res, todo, mu, pass, owner, storeVars, hashVars, dspVars, fe>>

\* f.mu.RLock()
RLock ==
    /\ pc[Matcher] = "rlock"
    /\ CanRLock
    /\ mu' = [mu EXCEPT !.readers = @ \cup {Matcher}]
    /\ Step(Matcher, "check")
    /\ UNCHANGED <<db, songs, songsFile, log, res, arg, todo, pass, owner, storeVars, hashVars, dspVars, fe>>

\* the two early returns, or the voting loop begins
CheckEmpty ==
    /\ pc[Matcher] = "check"
    /\ LET queryHashes == arg[Matcher].hashes
       IN  IF DOMAIN queryHashes = {} \/ DOMAIN db = {}
           THEN /\ res' = [called |-> TRUE, query |-> queryHashes,
                           result |-> NoMatch(IF DOMAIN queryHashes = {} THEN 0
                                              ELSE Cardinality(DOMAIN queryHashes))]
                /\ Step(Matcher, "runlock")
                /\ UNCHANGED <<todo, pass>>
           ELSE /\ todo' = [todo EXCEPT ![Matcher] = DOMAIN queryHashes]
                /\ pass' = [votes |-> EmptyMap, seen |-> {}]
                /\ Step(Matcher, "vote")
                /\ UNCHANGED res
    /\ UNCHANGED <<db, songs, songsFile, log, arg, mu, owner, storeVars, hashVars, dspVars, fe>>

\* offsetMatches after the inner loop over the entries dbMatches of one hash
RECURSIVE CountVotes(_, _, _)
CountVotes(votes, queryTime, dbMatches) ==
    IF dbMatches = <<>> THEN votes
    ELSE LET key == [songID |-> Head(dbMatches).SongID,
                     offsetBucket |-> OffsetBucket(queryTime, Head(dbMatches).Timestamp)]
         IN  CountVotes(Put(votes, key, IF key \in DOMAIN votes THEN votes[key] + 1 ELSE 1),
                        queryTime, Tail(dbMatches))

\* one iteration of the loop over queryHashes
VoteHash ==
    /\ pc[Matcher] = "vote"
    /\ \E h \in todo[Matcher] :
          /\ pass' = [votes |-> CountVotes(pass.votes, arg[Matcher].hashes[h], Lookup(db, h)),
                      seen |-> pass.seen \cup
                               {<<h, owner.db[h][i]>> : i \in 1..Len(Lookup(db, h))}]
          /\ todo' = [todo EXCEPT ![Matcher] = @ \ {h}]
          /\ Step(Matcher, IF todo[Matcher] = {h} THEN "best" ELSE "vote")
    /\ UNCHANGED <<db, songs, songsFile, log, res, arg, mu, owner, storeVars, hashVars, dspVars, fe>>

\* no votes: no match; else the selection loop, the name and the result
SelectBest ==
    /\ pc[Matcher] = "best"
    /\ IF DOMAIN pass.votes = {}
       THEN res' = [called |-> TRUE, query |-> arg[Matcher].hashes,
                    result |-> NoMatch(Cardinality(DOMAIN arg[Matcher].hashes))]
       ELSE \E order \in Orders(DOMAIN pass.votes) :
               res' = [called |-> TRUE, query |-> arg[Matcher].hashes,
                       result |-> MatchWith(pass.votes, songs, arg[Matcher].hashes, order)]
    /\ Step(Matcher, "runlock")
    /\ UNCHANGED <<db, songs, songsFile, log, arg, todo, mu, pass, owner, storeVars, hashVars, dspVars, fe>>

\* the deferred f.mu.RUnlock()
RUnlock ==
    /\ pc[Matcher] = "runlock"
    /\ mu' = [mu EXCEPT !.readers = @ \ {Matcher}]
    /\ Step(Matcher, "done")
    /\ UNCHANGED <<db, songs, songsFile, log, res, arg, todo, pass, owner, storeVars, hashVars, dspVars, fe>>

RegisterStep ==
    \E t \in Writers :
        \/ CallRegister(t)
        \/ Lock(t)
        \/ SetSongName(t)
        \/ StoreHash(t)
        \/ SaveMetadata(t)
        \/ AppendRecord(t)
        \/ Unlock(t)

MatchStep == CallMatch \/ RLock \/ CheckEmpty \/ VoteHash \/ SelectBest \/ RUnlock

LockNext == RegisterStep \/ MatchStep

LockSpec == MatchInit /\ [][LockNext]_vars

\* ------------------------------------------------------- concurrency claims
InRegisterCS(t) == pc[t] \in {"songs", "mem", "save", "append", "unlock"}

InMatchCS == pc[Matcher] \in {"check", "vote", "best", "runlock"}

\* the place of goroutine t in the order of the Lock() calls
LockPos(t) == CHOOSE i \in 1..Len(owner.order) : owner.order[i] = t

InLockOrder(seq) ==
    \A i, j \in 1..Len(seq) : i < j => LockPos(seq[i]) <= LockPos(seq[j])

\* the hashes under which Match would meet an entry of goroutine t's register
Shared(t) == DOMAIN arg[t].hashes \cap DOMAIN arg[Matcher].hashes

SeenOf(t) == {h \in Shared(t) : <<h, t>> \in pass.seen}

\* C7: register critical sections exclude each other and the Match pass; the
\* entries under each hash and the records of the log lie in the order of the
\* Lock() calls, one register's block after the other; and a finished Match
\* pass has read, of each register, all the entries under its query hashes or
\* none.
C7_LockSerializes ==
    /\ \A t1, t2 \in Writers : t1 # t2 => ~(InRegisterCS(t1) /\ InRegisterCS(t2))
    /\ \A t \in Writers : ~(InRegisterCS(t) /\ InMatchCS)
    /\ InLockOrder(owner.log)
    /\ \A h \in DOMAIN owner.db : InLockOrder(owner.db[h])
    /\ pc[Matcher] \in {"best", "runlock", "done"} =>
          \A t \in Writers : SeenOf(t) = {} \/ SeenOf(t) = Shared(t)

C7_Witness ==
    /\ pc[Matcher] = "done"
    /\ \E t1, t2 \in Writers :
          /\ pc[t1] = "done" /\ pc[t2] = "done"
          /\ LockPos(t1) < LockPos(t2)
          /\ Cardinality(Shared(t1)) = 2 /\ SeenOf(t1) = Shared(t1)
          /\ Cardinality(Shared(t2)) = 2 /\ SeenOf(t2) = {}
          /\ owner.log = <<t1, t1, t2, t2>>

\* the records of the log, each with the goroutine that wrote it and its hash
LogPairs == [i \in 1..Len(owner.log) |-> <<owner.log[i], log[4 * (i - 1) + 1]>>]

OfWriter(pairs, t) ==
    LET Test(e) == e[1] = t
    IN  SelectSeq(pairs, Test)

\* C25: the records one register call wrote to the log lie in the order in which the
\* call inserted its entries into the in-memory index, whatever the order in which each
\* range over the fingerprint map visits it.
C25_LogOrderIsInsertionOrder ==
    \A t \in Writers :
        pc[t] = "done" => OfWriter(LogPairs, t) = OfWriter(owner.mem, t)

\* --------------------------------------------------- GenerateHashes at work
\* One call of GenerateHashes on a peak list as ExtractPeaks returns it:
\* distinct cells in scan order, that is sorted by (Time, Freq).
storeAll == <<up, db, songs, songsFile, log, ret, loadErr, res, last, nreg, boots, lockVars,
              fe, dspVars>>

Frames == {0, 1, 2, 92}
FreqBins == {1000, 1024, 2040, 2048}
SampleRates == {44100}

Before(p, q) == p.Time < q.Time \/ (p.Time = q.Time /\ p.Freq < q.Freq)

PeakLists ==
    {s \in UNION {[1..n -> [Time : Frames, Freq : FreqBins]] : n \in 0..MaxPeaks} :
        \A i, k \in DOMAIN s : i < k => Before(s[i], s[k])}

\* the condition of the loop over j, for anchor peaks[i]
InZone(i, j) == j <= Len(peaks) /\ peaks[j].Time - peaks[i].Time <= targetZoneHeight

\* where a worker stands when its loop over j is at j
AtTarget(i, j) ==
    IF InZone(i, j) THEN [pc |-> "scan", anchorIndex |-> i, j |-> j]
    ELSE [pc |-> "recv", anchorIndex |-> 0, j |-> 0]

\* GenerateHashes is called on a peak list of the set lists: the channels are made and
\* numWorkers = runtime.NumCPU() workers started, on a machine of 1..NumCPU processors
StartGenerateHashes(lists) ==
    /\ gpc = "idle"
    /\ \E p \in lists, rate \in SampleRates, numWorkers \in 1..NumCPU :
          /\ peaks' = p
          /\ sampleRate' = rate
          /\ wk' = [w \in Workers |-> IF w <= numWorkers
                                      THEN [pc |-> "recv", anchorIndex |-> 0, j |-> 0]
                                      ELSE NoWork]
          /\ wg' = numWorkers
    /\ gpc' = "send"
    /\ UNCHANGED <<sent, jobsChan, resultsChan, closed, finalHashes, emitted, storeAll>>

CallGenerateHashes ==
    /\ gpc = "idle"
    /\ StartGenerateHashes(PeakLists)

\* close(jobsChan) has been executed
JobsNeverClosed == FALSE

JobsClosed == gpc \in {"collect", "done"}

\* jobsChan <- i
SendJob ==
    /\ gpc = "send"
    /\ sent < Len(peaks)
    /\ jobsChan' = Append(jobsChan, sent + 1)
    /\ sent' = sent + 1
    /\ UNCHANGED <<gpc, peaks, sampleRate, resultsChan, wk, wg, closed, finalHashes,
                   emitted, storeAll>>

\* close(jobsChan); the goroutine that waits for the workers is started and
\* the loop over resultsChan begins
CloseJobs ==
    /\ gpc = "send"
    /\ sent = Len(peaks)
    /\ gpc' = "collect"
    /\ UNCHANGED <<peaks, sampleRate, sent, jobsChan, resultsChan, wk, wg, closed,
                   finalHashes, emitted, storeAll>>

\* a worker receives an anchor index from jobsChan
TakeJob(w) ==
    /\ wk[w].pc = "recv"
    /\ jobsChan # <<>>
    /\ wk' = [wk EXCEPT ![w] = AtTarget(Head(jobsChan), Head(jobsChan) + 1)]
    /\ jobsChan' = Tail(jobsChan)
    /\ UNCHANGED <<gpc, peaks, sampleRate, sent, resultsChan, wg, closed, finalHashes,
                   emitted, storeAll>>

\* one iteration of the loop over j: the target is in the zone and its result
\* is sent (the send waits while the channel holds len(peaks) results), or it
\* is not
ScanTarget(w) ==
    /\ wk[w].pc = "scan"
    /\ LET anchor == peaks[wk[w].anchorIndex]
           target == peaks[wk[w].j]
           result == [hash |-> Hash(anchor, target),
                      time |-> AnchorTime(anchor, sampleRate)]
       IN  IF Abs(target.Freq - anchor.Freq) <= targetZoneWidth
           THEN /\ Len(resultsChan) < Len(peaks)
                /\ resultsChan' = Append(resultsChan, result)
                /\ emitted' = emitted \cup
                      {[anchorIndex |-> wk[w].anchorIndex, j |-> wk[w].j,
                        hash |-> result.hash, time |-> result.time]}
           ELSE UNCHANGED <<resultsChan, emitted>>
    /\ wk' = [wk EXCEPT ![w] = AtTarget(wk[w].anchorIndex, wk[w].j + 1)]
    /\ UNCHANGED <<gpc, peaks, sampleRate, sent, jobsChan, wg, closed, finalHashes,
                   storeAll>>

\* jobsChan is closed and empty: the worker returns, wg.Done()
WorkerDone(w) ==
    /\ wk[w].pc = "recv"
    /\ jobsChan = <<>>
    /\ JobsClosed
    /\ wk' = [wk EXCEPT ![w] = [pc |-> "done", anchorIndex |-> 0, j |-> 0]]
    /\ wg' = wg - 1
    /\ UNCHANGED <<gpc, peaks, sampleRate, sent, jobsChan, resultsChan, closed,
                   finalHashes, emitted, storeAll>>

\* wg.Wait() returns and resultsChan is closed
CloseResults ==
    /\ gpc = "collect"
    /\ wg = 0
    /\ ~closed
    /\ closed' = TRUE
    /\ UNCHANGED <<gpc, peaks, sampleRate, sent, jobsChan, resultsChan, wk, wg,
                   finalHashes, emitted, storeAll>>

\* finalHashes[result.hash] = result.time for the next result of the channel
Collect ==
    /\ gpc = "collect"
    /\ resultsChan # <<>>
    /\ finalHashes' = Put(finalHashes, Head(resultsChan).hash, Head(resultsChan).time)
    /\ resultsChan' = Tail(resultsChan)
    /\ UNCHANGED <<gpc, peaks, sampleRate, sent, jobsChan, wk, wg, closed, emitted,
                   storeAll>>

\* resultsChan is closed and drained: return finalHashes, nil
ReturnHashes ==
    /\ gpc = "collect"
    /\ resultsChan = <<>>
    /\ closed
    /\ gpc' = "done"
    /\ UNCHANGED <<peaks, sampleRate, sent, jobsChan, resultsChan, wk, wg, closed,
                   finalHashes, emitted, storeAll>>

WorkerStep == \E w \in Workers : TakeJob(w) \/ ScanTarget(w) \/ WorkerDone(w)

HashNext ==
    CallGenerateHashes \/ SendJob \/ CloseJobs \/ WorkerStep \/ CloseResults
        \/ Collect \/ ReturnHashes

HashSpec == Init /\ [][HashNext]_vars

\* ------------------------------------------------ GenerateHashes under load
\* The same call on dense peak lists: up to MaxDense peaks that all lie in each
\* other's target zone, so that the workers emit more results than resultsChan
\* holds.  The Go scheduler runs every goroutine that can take a step: the function
\* itself, the goroutine that closes resultsChan, and each worker.
MaxDense == 4

DensePeakLists ==
    {s \in UNION {[1..n -> [Time : {0, 1}, Freq : {1000, 1024}]] : n \in 0..MaxDense} :
        \A i, k \in DOMAIN s : i < k => Before(s[i], s[k])}

CallGenerateHashesDense ==
    /\ gpc = "idle"
    /\ StartGenerateHashes(DensePeakLists)

MainStep == SendJob \/ CloseJobs \/ Collect \/ ReturnHashes

HashLiveNext == CallGenerateHashesDense \/ MainStep \/ WorkerStep \/ CloseResults

HashLiveSpec ==
    /\ Init
    /\ [][HashLiveNext]_vars
    /\ WF_vars(MainStep)
    /\ WF_vars(CloseResults)
    /\ \A w \in Workers : WF_vars(TakeJob(w) \/ ScanTarget(w) \/ WorkerDone(w))

\* ----------------------------------------------------------- hasher claims
\* C16 (P2): the anchor A and the target P of every hash emitted satisfy
\* 0 < P.time - A.time <= 90 and |P.freq - A.freq| <= 45.
C16_TargetZone ==
    \A e \in emitted :
        LET A == peaks[e.anchorIndex]
            P == peaks[e.j]
        IN  /\ 0 < P.Time - A.Time
            /\ P.Time - A.Time <= 90
            /\ Abs(P.Freq - A.Freq) <= 45

\* (f_a & 0x3FF) << 22 | (f_p & 0x3FF) << 12 | (dt & 0xFFF) as a 32-bit value
MaskedHash(fa, fp, dt) ==
    Or32(Or32(Shl(Uint32(fa % 1024), 22), Shl(Uint32(fp % 1024), 12)), Uint32(dt % 4096))

\* C17: the hash of every pair emitted with dt in 1..90 is the masked packing
\* of its fields, and its bits 31..22 are the low 10 bits of the anchor bin.
C17_HashIsMaskedPacking ==
    \A e \in emitted :
        LET A == peaks[e.anchorIndex]
            P == peaks[e.j]
        IN  (P.Time - A.Time \in 1..90) =>
                /\ e.hash = MaskedHash(A.Freq, P.Freq, P.Time - A.Time)
                /\ e.hash[1] \div 64 = A.Freq % 1024

\* the last anchor of the peak list that emitted the hash h
LatestAnchor(h) ==
    CHOOSE i \in {e.anchorIndex : e \in {x \in emitted : x.hash = h}} :
        \A e \in emitted : e.hash = h => e.anchorIndex <= i

\* C18: the time GenerateHashes returns for a hash is the anchor time of the
\* latest anchor that produced the hash.
C18_LastWriteWins ==
    gpc = "done" =>
        \A h \in DOMAIN finalHashes :
            finalHashes[h] = AnchorTime(peaks[LatestAnchor(h)], sampleRate)

\* every worker that was started has returned
WorkersFinished(w0, g0) == g0 = 0 /\ \A w \in Workers : w0[w].pc \in {"none", "done"}

\* C26: GenerateHashes terminates for every peak list and every worker count: resultsChan
\* is closed only after all workers have finished and stays closed, and every call that
\* has started its workers returns, with both channels drained and no goroutine left.
C26_Terminates ==
    /\ [][(~closed /\ closed') => WorkersFinished(wk', wg')]_vars
    /\ [][closed => closed']_vars
    /\ (gpc = "send") ~> (/\ gpc = "done" /\ closed /\ WorkersFinished(wk, wg)
                          /\ jobsChan = <<>> /\ resultsChan = <<>>)

\* a call that returned after its workers emitted more results than resultsChan holds
C26_Witness ==
    /\ gpc = "done"
    /\ Len(peaks) = MaxDense
    /\ Cardinality(emitted) > Len(peaks)
    /\ closed /\ WorkersFinished(wk, wg)

\* the pairs of the target zone: P after A in the list, 0 < dt <= 90 and |df| <= 45
ZonePairs ==
    {p \in (1..Len(peaks)) \X (1..Len(peaks)) :
        /\ p[1] < p[2]
        /\ 0 < peaks[p[2]].Time - peaks[p[1]].Time
        /\ peaks[p[2]].Time - peaks[p[1]].Time <= 90
        /\ Abs(peaks[p[2]].Freq - peaks[p[1]].Freq) <= 45}

\* C27: the keys GenerateHashes returns are the packed hashes of the in-zone pairs of
\* the peak list, no more and no less, under every worker count and interleaving.
C27_KeysAreZoneHashes ==
    gpc = "done" =>
        DOMAIN finalHashes =
            {MaskedHash(peaks[p[1]].Freq, peaks[p[2]].Freq,
                        peaks[p[2]].Time - peaks[p[1]].Time) : p \in ZonePairs}

\* ------------------------------------------------------------ the front-ends
\* The HTTP server (handleAdd, handleMatch) and the command line (main,
\* addSong) run the same pipeline: LoadWav, GenerateSpectogram, ExtractPeaks,
\* GenerateHashes, then the store.  The process that is up stands for the
\* server, or for a command-line run that has made its NewDB; the file system
\* does not fail.
backEnd == <<up, db, songs, songsFile, log, ret, loadErr, res, last, nreg, boots, lockVars,
             hashVars, dspVars>>

\* what LoadWav returns without an error: no sample, samples of silence or of
\* sound, and the sample rate of the header.  (A sample rate 0 with sound makes
\* the anchor times NaN or +Inf; the model leaves that input out.)
Audio ==
    {a \in [samples : {"none", "silent", "sound"}, sampleRate : {0, 44100}] :
        ~(a.samples = "sound" /\ a.sampleRate = 0)}

\* the fingerprints the three stages can return for the audio; none of them
\* returns an error, none looks at the number of samples or at the sample rate
PipelineHashes(audio) ==
    IF audio.samples = "sound" THEN StoreFingerprints ELSE {EmptyMap}

Run(front, op, audio, hashes, cond) ==
    [front |-> front, op |-> op, audio |-> audio, hashes |-> hashes, cond |-> cond]

\* handleAdd
ServerAdd ==
    /\ up
    /\ ~res.called
    /\ \E audio \in Audio, songName \in Names, songID \in 1..MaxMatchID :
          \E hashes \in PipelineHashes(audio) :
             IF DOMAIN hashes = {}
             THEN /\ fe' = Run("server", "add", audio, hashes, "EmptyFingerprint")
                  /\ UNCHANGED backEnd
             ELSE /\ RegisterSong(songID, songName, hashes, FALSE)
                  /\ fe' = Run("server", "add", audio, hashes, "called")

\* handleMatch
ServerMatch ==
    /\ up
    /\ ~res.called
    /\ \E audio \in Audio :
          \E hashes \in PipelineHashes(audio) :
             IF DOMAIN hashes = {}
             THEN /\ fe' = Run("server", "match", audio, hashes, "EmptyFingerprint")
                  /\ UNCHANGED backEnd
             ELSE /\ MatchCall({hashes})
                  /\ fe' = Run("server", "match", audio, hashes, "called")

\* main with --add: addSong(db, filePath, hashes)
CliAdd ==
    /\ JustStarted
    /\ ~res.called
    /\ \E audio \in Audio, songName \in Names, songID \in 1..MaxMatchID :
          \E hashes \in PipelineHashes(audio) :
             /\ RegisterSong(songID, songName, hashes, FALSE)
             /\ fe' = Run("cli", "add", audio, hashes, "called")

\* main without --add: db.Match(hashes)
CliMatch ==
    /\ JustStarted
    /\ ~res.called
    /\ \E audio \in Audio :
          \E hashes \in PipelineHashes(audio) :
             /\ MatchCall({hashes})
             /\ fe' = Run("cli", "match", audio, hashes, "called")

FrontNext == NewDB \/ Exit \/ ServerAdd \/ ServerMatch \/ CliAdd \/ CliMatch \/ Report

FrontSpec == Init /\ [][FrontNext]_vars

\* -------------------------------------------------------- front-end claims
\* C19: a front-end run whose hasher returned an empty map ends with the
\* empty-fingerprint condition and without a RegisterSong or Match call, and
\* no song is in the song table without an entry in the index.
C19_EmptyFingerprintShortCircuits ==
    /\ (fe.front # "none" /\ DOMAIN fe.hashes = {}) => fe.cond = "EmptyFingerprint"
    /\ up => \A songID \in DOMAIN songs : \E h \in DOMAIN db : HasEntry(db, h, songID)

\* C20: a front-end run on no samples or on a sample rate <= 0 ends with the
\* invalid-audio error.
C20_InvalidAudioSurfaced ==
    (fe.front # "none" /\ (fe.audio.samples = "none" \/ fe.audio.sampleRate <= 0))
        => fe.cond = "InvalidAudio"

(***************************************************************************)
(* The signal front of the pipeline: GenerateSpectogram and ExtractPeaks   *)
(* of cmd/server/main.go, and generateSongID of both programs.  Each is a  *)
(* function of its arguments alone, so a behaviour of DspSpec observes one *)
(* call of one of them on an argument drawn from a bounded set.            *)
(***************************************************************************)

pipeline == <<up, db, songs, songsFile, log, ret, loadErr, res, last, nreg, boots, lockVars,
              hashVars, fe>>

\* the sample counts handed to GenerateSpectogram reach MaxKilo * 1024 + 1023
MaxKilo == 10

\* a model spectrogram has NumRows frames of NumCols bins: bins 0 and NumCols - 1 are
\* outside each other's neighborhood, every frame is inside the neighborhood of every other
NumRows == 2

NumCols == 12

\* magnitudes are counted in units of half the threshold of ExtractPeaks
MaxMag == 3

peakNeighborhood == 10

\* the magnitude 0.00000000000000001 below which ExtractPeaks skips a cell
Eps == 2

SampleCounts == {k * 1024 + d : k \in 0..MaxKilo, d \in {0, 1, 1023}}

\* the frames of the loop of GenerateSpectogram from sample i on: each is the slice
\* monoSamples[i : i + fftWindowSize] it copies into the chunk it transforms
RECURSIVE SegmentsToEnd(_, _)
SegmentsToEnd(i, size) ==
    IF i < size
    THEN <<[from |-> i, to |-> i + fftWindowSize]>>
             \o SegmentsToEnd(i + (fftWindowSize - fftOverLap), size)
    ELSE <<>>

RECURSIVE Segments(_, _)
Segments(i, size) ==
    IF i <= size - fftWindowSize
    THEN <<[from |-> i, to |-> i + fftWindowSize]>>
             \o Segments(i + (fftWindowSize - fftOverLap), size)
    ELSE <<>>

\* GenerateSpectogram appends one row of magnitudes for each segment
GenerateSpectogram(size) == Segments(0, size)

\* spectrogram[r][c] of the code, rows and columns counted from 0
At(spectrogram, r, c) == spectrogram[r + 1][c + 1]

RowsOf(spectrogram) == 0..(Len(spectrogram) - 1)

ColsOf(spectrogram, r) == 0..(Len(spectrogram[r + 1]) - 1)

MaxOf(S) == CHOOSE m \in S : \A x \in S : x <= m

\* maxVal after the two neighborhood loops: the largest magnitude among the cells of the
\* box of radius peakNeighborhood around (r, c) that lie inside the matrix
NeighborhoodMaxInFrame(spectrogram, r, c) ==
    MaxOf({At(spectrogram, r, nc) :
              nc \in {x \in (c - peakNeighborhood)..(c + peakNeighborhood) :
                         x \in ColsOf(spectrogram, r)}})

NeighborhoodMax(spectrogram, r, c) ==
    MaxOf({At(spectrogram, r, c)} \cup
          UNION {{At(spectrogram, nr, nc) :
                     nc \in {x \in (c - peakNeighborhood)..(c + peakNeighborhood) :
                                x \in ColsOf(spectrogram, nr)}} :
                 nr \in {y \in (r - peakNeighborhood)..(r + peakNeighborhood) :
                            y \in RowsOf(spectrogram)}})

\* the cell passes the threshold and equals the maximum of its box
IsPeak(spectrogram, r, c) ==
    /\ ~(At(spectrogram, r, c) < Eps)
    /\ At(spectrogram, r, c) = NeighborhoodMax(spectrogram, r, c)

\* the cells in the order of the two scanning loops
RECURSIVE ScanOrder(_, _)
ScanOrder(spectrogram, r) ==
    IF r >= Len(spectrogram) THEN <<>>
    ELSE [i \in 1..Len(spectrogram[r + 1]) |-> [Time |-> r, Freq |-> i - 1]]
             \o ScanOrder(spectrogram, r + 1)

ExtractPeaks(spectrogram) ==
    LET Test(p) == IsPeak(spectrogram, p.Time, p.Freq)
    IN  SelectSeq(ScanOrder(spectrogram, 0), Test)

\* the spectrograms of the model: a uniform background with up to two cells set apart
Uniform(bg) == [r \in 1..NumRows |-> [c \in 1..NumCols |-> bg]]

WithCell(spectrogram, r, c, v) ==
    [spectrogram EXCEPT ![r + 1] = [spectrogram[r + 1] EXCEPT ![c + 1] = v]]

Spectrograms ==
    {WithCell(WithCell(Uniform(bg), r1, c1, v1), r2, c2, v2) :
        bg \in 0..MaxMag, r1 \in 0..(NumRows - 1), c1 \in 0..(NumCols - 1), v1 \in 0..MaxMag,
        r2 \in 0..(NumRows - 1), c2 \in 0..(NumCols - 1), v2 \in 0..MaxMag}

\* a file name is a sequence of runes of at most MaxPath runes
MaxPath == 14

Runes == {46, 122}

Paths == UNION {[1..n -> Runes] : n \in 0..MaxPath}

\* a uint64 is four 16-bit limbs, the lowest first
Zero64 == <<0, 0, 0, 0>>

\* hash*31 + uint64(char) in uint64 arithmetic: the carry out of the top limb is lost
Mul31Add(hash, char) ==
    LET t0 == hash[1] * 31 + char
        t1 == hash[2] * 31 + (t0 \div 65536)
        t2 == hash[3] * 31 + (t1 \div 65536)
        t3 == hash[4] * 31 + (t2 \div 65536)
    IN  <<t0 % 65536, t1 % 65536, t2 % 65536, t3 % 65536>>

AddMod(x, y, m) == IF x >= m - y THEN x - (m - y) ELSE x + y

\* hash % 2147483647: with m = 2^31 - 1, 2^31 is 1 modulo m, so a limb times its weight
\* 2^16, 2^32 or 2^48 reduces to the sum of its high bits and its shifted low bits
Mod2147483647(hash) ==
    LET m  == 2147483647
        w0 == hash[1]
        w1 == (hash[2] \div 32768) + (hash[2] % 32768) * 65536
        w2 == hash[3] * 2
        w3 == (hash[4] \div 16384) + (hash[4] % 16384) * 131072
    IN  AddMod(AddMod(AddMod(w0, w1, m), w2, m), w3, m) % m

\* no call of the signal front has been observed yet
DspIdle == ~gs.called /\ ~ep.called /\ ~sid.called

\* the loop over the runes of the path, of the server and of the command-line program
RECURSIVE HashLoop(_, _)
HashLoop(filePath, n) ==
    IF n = 0 THEN Zero64 ELSE Mul31Add(HashLoop(filePath, n - 1), filePath[n])

RECURSIVE HashLoopCli(_, _)
HashLoopCli(filePath, n) ==
    IF n = 0 THEN Zero64 ELSE Mul31Add(HashLoopCli(filePath, n - 1), filePath[n])

generateSongIDUnfolded(filePath) == Mod2147483647(HashLoop(filePath, Len(filePath)))

generateSongID(filePath) ==
    LET result == Mod2147483647(HashLoop(filePath, Len(filePath)))
    IN  IF result = 0 THEN 1 ELSE result

generateSongIDCli(filePath) ==
    LET result == Mod2147483647(HashLoopCli(filePath, Len(filePath)))
    IN  IF result = 0 THEN 1 ELSE result

\* both programs derive the ID of a song from its file name
CallGenerateSongID ==
    /\ DspIdle
    /\ \E filePath \in Paths :
           sid' = [called |-> TRUE, path |-> filePath, server |-> generateSongID(filePath),
                   cli |-> generateSongIDCli(filePath)]
    /\ UNCHANGED <<gs, ep, pipeline>>

CallGenerateSpectogram ==
    /\ DspIdle
    /\ \E size \in SampleCounts :
           gs' = [called |-> TRUE, size |-> size, frames |-> GenerateSpectogram(size)]
    /\ UNCHANGED <<ep, sid, pipeline>>

CallExtractPeaks ==
    /\ DspIdle
    /\ \E spectrogram \in Spectrograms :
           ep' = [called |-> TRUE, spectrogram |-> spectrogram,
                  peaks |-> ExtractPeaks(spectrogram)]
    /\ UNCHANGED <<gs, sid, pipeline>>

DspNext == CallGenerateSpectogram \/ CallExtractPeaks \/ CallGenerateSongID

DspSpec == Init /\ [][DspNext]_vars

(***************************************************************************)
(* Claims about the signal front.                                          *)
(***************************************************************************)

CellsOf(spectrogram) ==
    UNION {{[Time |-> r, Freq |-> c] : c \in ColsOf(spectrogram, r)} : r \in RowsOf(spectrogram)}

\* the cells of the box of radius peakNeighborhood around a peak, cut at the matrix bounds
Box(spectrogram, p) ==
    {q \in CellsOf(spectrogram) :
        /\ Abs(q.Time - p.Time) <= peakNeighborhood
        /\ Abs(q.Freq - p.Freq) <= peakNeighborhood}

Mag(spectrogram, p) == At(spectrogram, p.Time, p.Freq)

PeakSet(peakSeq) == {peakSeq[i] : i \in 1..Len(peakSeq)}

AllZero(spectrogram) == \A q \in CellsOf(spectrogram) : Mag(spectrogram, q) = 0

\* C21: every peak ExtractPeaks outputs holds the largest magnitude of the 21x21 box
\* centred on it and clamped to the matrix, and an all-zero spectrogram yields no peaks
C21_PeakIsNeighborhoodMax ==
    ep.called =>
        /\ \A p \in PeakSet(ep.peaks) :
               \A q \in Box(ep.spectrogram, p) : Mag(ep.spectrogram, q) <= Mag(ep.spectrogram, p)
        /\ AllZero(ep.spectrogram) => ep.peaks = <<>>

\* a peak in one frame whose box holds a smaller cell of the other frame, while a larger
\* cell lies outside the box
C21_Witness ==
    /\ ep.called
    /\ \E p \in PeakSet(ep.peaks) :
           /\ \E q \in Box(ep.spectrogram, p) :
                  q.Time # p.Time /\ Mag(ep.spectrogram, q) < Mag(ep.spectrogram, p)
           /\ \E q \in CellsOf(ep.spectrogram) :
                  Mag(ep.spectrogram, q) > Mag(ep.spectrogram, p)

\* C22: a plateau produces one peak: no two peaks of the output lie in one 21x21 box, even
\* for a spectrogram of uniform magnitude
C22_OnePeakPerPlateau ==
    ep.called =>
        \A p \in PeakSet(ep.peaks) :
            \A q \in Box(ep.spectrogram, p) : q \in PeakSet(ep.peaks) => q = p

\* C23: N samples give floor((N - W) / H) + 1 frames when N >= W and none iff N < W;
\* frame t is cut from samples [t*H, t*H + W), which ends inside the sample vector
C23_FrameCount ==
    gs.called =>
        LET H == fftWindowSize - fftOverLap
            T == Len(gs.frames)
        IN  /\ gs.size >= fftWindowSize => T = ((gs.size - fftWindowSize) \div H) + 1
            /\ T = 0 <=> gs.size < fftWindowSize
            /\ \A t \in 0..(T - 1) :
                   /\ gs.frames[t + 1].from = t * H
                   /\ gs.frames[t + 1].to = t * H + fftWindowSize
                   /\ gs.frames[t + 1].to <= gs.size

\* several frames, and samples left over after the last one
C23_Witness ==
    /\ gs.called
    /\ Len(gs.frames) >= 3
    /\ gs.frames[Len(gs.frames)].to < gs.size

\* the multiplication of the rolling hash left the 64 bits at some rune of the path
Wraps(filePath) ==
    \E n \in 1..Len(filePath) :
        LET hash == HashLoop(filePath, n - 1)
            t0 == hash[1] * 31 + filePath[n]
            t1 == hash[2] * 31 + (t0 \div 65536)
            t2 == hash[3] * 31 + (t1 \div 65536)
        IN  hash[4] * 31 + (t2 \div 65536) >= 65536

\* C28: generateSongID returns an ID of 1..2147483646 for every file name, which is
\* positive and inside the 32-bit signed range, and both programs return the same ID
C28_SongIDPositive ==
    sid.called =>
        /\ sid.server \in 1..2147483646
        /\ sid.cli \in 1..2147483646
        /\ Int32(sid.server) = sid.server
        /\ sid.cli = sid.server

\* a file name long enough for the rolling hash to wrap around 2^64
C28_Witness == sid.called /\ Wraps(sid.path) /\ sid.server > 1

TypeOK ==
    /\ up \in BOOLEAN
    /\ songsFile.kind \in {"absent", "ok", "corrupt"}
    /\ ret \in {"none", "ok", "err", "crash"}
    /\ nreg \in 0..MaxRegs
    /\ boots \in 0..MaxBoots

====
